---- MODULE Spec2Model ----
(***************************************************************************)
(* Model of src/main.py: a Streamlit page that loads a regression model    *)
(* through st.cache_resource, reads three sliders and, when the button is  *)
(* pressed, calls model.predict on a one-row DataFrame and renders the     *)
(* value formatted with ":.2f".                                            *)
(*                                                                         *)
(* One step of the model is one run of the script (a "render"): Streamlit  *)
(* runs main.py top to bottom on the first page load, after every widget   *)
(* change, after a button press and on a manual rerun.  What survives a    *)
(* run is the cache_resource entry of load_model (process wide) and the    *)
(* widget values (session wide); every script variable is rebuilt.         *)
(*                                                                         *)
(* Real numbers are held in units of 1/10000 (12.3456 is 123456).  The     *)
(* text of an f-string is a sequence of its parts.                         *)
(***************************************************************************)
EXTENDS Integers, Sequences, FiniteSets, TLC

VARIABLES
    cache,        \* st.cache_resource entry of load_model('modeloproyecto.joblib')
    fileReads,    \* number of joblib.load calls made by the process (instrumentation)
    notFound,     \* instrumentation: joblib.load has raised FileNotFoundError in this process
    joblibExc,    \* exception joblib.load raised in the last render ("none": no read or no failure)
    AmineFlow,    \* widget value of the first slider
    AirFlow,      \* widget value of the second slider
    Iron,         \* widget value of the third slider
    trigger,      \* what caused the last render
    model,        \* the script's global `model` in the last render
    shown,        \* what the prediction section of the last render displayed
    prevShown,    \* instrumentation: what the render before the last one displayed
    rendered,     \* the parts of the message displayed there
    df_input,     \* the DataFrame handed to model.predict in the last render
    predictCalls  \* number of model.predict calls in the last render

vars == <<cache, fileReads, notFound, joblibExc, AmineFlow, AirFlow, Iron,
          trigger, model, shown, prevShown, rendered, df_input, predictCalls>>

(***************************************************************************)
(* Bounds of the model.                                                    *)
(***************************************************************************)
\* slider positions tried: within SliderReach of each slider's minimum, default and maximum
SliderReach == 1
\* joblib.load calls counted before the model stops reading
MaxReads == 2

(***************************************************************************)
(* The three sliders (lines 38-64).                                        *)
(***************************************************************************)
AmineMin == 241
AmineMax == 740
AmineDefault == 300
AirMin == 175
AirMax == 372
AirDefault == 180
IronMin == 62
IronMax == 69
IronDefault == 63

\* positions a user may try to drag a slider to, some of them past its ends
Positions(lo, hi, dflt) ==
    (lo - SliderReach .. lo + SliderReach)
        \cup (dflt - SliderReach .. dflt + SliderReach)
        \cup (hi - SliderReach .. hi + SliderReach)

\* a slider whose max_value is not enforced
SliderNoMax(lo, hi, raw) == IF raw < lo THEN lo ELSE raw

\* st.slider(min_value=lo, max_value=hi, step=1): the value the widget reports
slider(lo, hi, raw) == IF raw < lo THEN lo ELSE IF raw > hi THEN hi ELSE raw

(***************************************************************************)
(* Values of the script's global `model`.                                  *)
(***************************************************************************)
None == [kind |-> "None", id |-> 0]
\* `model` was never assigned: line 28 raised
Unbound == [kind |-> "unbound", id |-> 0]

\* stub artifacts the model file may hold
ModelKinds == {"const", "eighths", "picky", "raising", "empty"}

IsModel(m) == m.kind \in ModelKinds

(***************************************************************************)
(* joblib.load(model_path), line 21: what the read may do.                 *)
(***************************************************************************)
LoadOutcomes ==
    [exc : {"none"}, kind : ModelKinds]
        \cup [exc : {"FileNotFoundError", "PermissionError", "UnpicklingError"},
              kind : {"None"}]

\* stands for "the cache answered, nothing was read"
NoRead == [exc |-> "none", kind |-> "None"]

\* load_model (lines 18-25) for one outcome of joblib.load; n numbers the instance
load_model(outcome, n) ==
    IF outcome.exc = "none"
    THEN [raised |-> FALSE, exc |-> "none", value |-> [kind |-> outcome.kind, id |-> n]]
    ELSE IF outcome.exc = "FileNotFoundError"
    THEN [raised |-> FALSE, exc |-> "none", value |-> None]
    ELSE [raised |-> TRUE, exc |-> outcome.exc, value |-> Unbound]

EmptyCache == [present |-> FALSE, value |-> Unbound]

\* a cache that stores nothing when the function returned None
CacheSkipsNone(c, outcome, n) ==
    IF c.present
    THEN [cache |-> c, raised |-> FALSE, exc |-> "none", value |-> c.value, reads |-> 0]
    ELSE LET r == load_model(outcome, n) IN
         [cache  |-> IF r.raised \/ r.value = None THEN c
                     ELSE [present |-> TRUE, value |-> r.value],
          raised |-> r.raised, exc |-> r.exc, value |-> r.value, reads |-> 1]

\* a cache whose entry is gone by the next render (it never answers)
CacheExpires(c, outcome, n) ==
    LET r == load_model(outcome, n) IN
    [cache |-> c, raised |-> r.raised, exc |-> r.exc, value |-> r.value, reads |-> 1]

\* @st.cache_resource (line 17) around load_model: a hit returns the stored
\* value; a miss runs the function and stores what it returns (None too);
\* an exception is not stored and goes on to the caller
cache_resource(c, outcome, n) ==
    IF c.present
    THEN [cache |-> c, raised |-> FALSE, exc |-> "none", value |-> c.value, reads |-> 0]
    ELSE LET r == load_model(outcome, n) IN
         [cache  |-> IF r.raised THEN c ELSE [present |-> TRUE, value |-> r.value],
          raised |-> r.raised, exc |-> r.exc, value |-> r.value, reads |-> 1]

(***************************************************************************)
(* The prediction section (lines 96-117).                                  *)
(***************************************************************************)
\* the column names the artifact was trained on (comment of line 100)
FeatureNames == <<"FlujoAmina", "FlujoAireColumna1", "Hierro Concentrado">>

NoFrame == [columns |-> <<>>, rows |-> <<>>]

\* a frame whose first two values are exchanged
DataFrameSwapped(am, ai, ir) ==
    [columns |-> <<"FlujoAmina", "FlujoAireColumna1", "Hierro Concentrado">>,
     rows    |-> << <<ai, am, ir>> >>]

\* pd.DataFrame({...}) of lines 101-105: one row, three named columns in this order
DataFrame(am, ai, ir) ==
    [columns |-> <<"FlujoAmina", "FlujoAireColumna1", "Hierro Concentrado">>,
     rows    |-> << <<am, ai, ir>> >>]

Returned(values) == [raised |-> FALSE, type |-> "none", msg |-> "", value |-> values]
Raised(type, msg) == [raised |-> TRUE, type |-> type, msg |-> msg, value |-> <<>>]

\* model.predict(df_input), line 109, for the stub artifacts:
\*   const    returns [12.3456] whatever the row
\*   eighths  returns [(FlujoAmina + FlujoAireColumna1 + Hierro Concentrado) / 8]
\*   picky    raises for Hierro Concentrado = 69 and returns [-0.0049] otherwise
\*   raising  always raises
\*   empty    returns an empty array
\* every stub refuses a frame whose columns are not the trained ones
predict(m, df) ==
    IF df.columns # FeatureNames \/ Len(df.rows) # 1
    THEN Raised("ValueError", "feature_names mismatch")
    ELSE LET row == df.rows[1] IN
         CASE m.kind = "const"   -> Returned(<<123456>>)
           [] m.kind = "eighths" -> Returned(<<(row[1] + row[2] + row[3]) * 1250>>)
           [] m.kind = "picky"   -> IF row[3] = IronMax
                                    THEN Raised("ValueError", "Hierro Concentrado fuera de rango")
                                    ELSE Returned(<<-49>>)
           [] m.kind = "raising" -> Raised("RuntimeError", "booster failed")
           [] OTHER              -> Returned(<<>>)

TwoDigits(n) == IF n < 10 THEN "0" \o ToString(n) ELSE ToString(n)

\* a format that cuts the digits after the second decimal instead of rounding
Format2fTruncating(v) ==
    LET a == IF v < 0 THEN -v ELSE v
        cents == a \div 100
    IN  (IF v < 0 THEN "-" ELSE "") \o ToString(cents \div 100) \o "." \o TwoDigits(cents % 100)

\* format(value, ".2f") of line 112: the nearest multiple of 0.01, a tie going
\* to the even one, the sign kept even when the digits are all zero.  (A
\* decimal tie is a tie of the float only when the value is a multiple of
\* 1/8, which is the case for every tie the stubs return.)
Format2f(v) ==
    LET a == IF v < 0 THEN -v ELSE v
        q == a \div 100
        r == a % 100
        cents == IF r > 50 THEN q + 1
                 ELSE IF r < 50 THEN q
                 ELSE IF q % 2 = 0 THEN q ELSE q + 1
    IN  (IF v < 0 THEN "-" ELSE "") \o ToString(cents \div 100) \o "." \o TwoDigits(cents % 100)

\* the body of the try block, lines 109-113: the call, prediction_value[0], the format
PredictionStep(m, df) ==
    LET p == predict(m, df) IN
    IF p.raised THEN [raised |-> TRUE, type |-> p.type, msg |-> p.msg, parts |-> <<>>]
    ELSE IF Len(p.value) = 0
    THEN [raised |-> TRUE, type |-> "IndexError",
          msg |-> "index 0 is out of bounds for axis 0 with size 0", parts |-> <<>>]
    ELSE [raised |-> FALSE, type |-> "none", msg |-> "",
          parts |-> <<"Rendimiento Predicho: ", Format2f(p.value[1]), "%">>]

\* an except clause that names ValueError only
ExceptValueError(type) == type = "ValueError"

\* `except Exception` of line 114: every exception class but the BaseException-only ones
ExceptException(type) == type \notin {"KeyboardInterrupt", "SystemExit", "GeneratorExit"}

Display(s, parts, df, calls) == [shown |-> s, rendered |-> parts, df |-> df, calls |-> calls]

\* try/except of lines 108-115
TryPredict(m, df) ==
    LET b == PredictionStep(m, df) IN
    IF ~b.raised THEN Display("result", b.parts, df, 1)
    ELSE IF ExceptException(b.type)
    THEN Display("error", <<"Ocurrio un error durante la prediccion: ", b.msg>>, df, 1)
    ELSE Display("exception", <<b.type, b.msg>>, df, 1)

WarningText == "El modelo no pudo ser cargado. Por favor, verifica la ruta del archivo del modelo."

\* a prediction section that does not wait for the button
PredictionLogicEveryRender(m, pressed, am, ai, ir) ==
    IF m # None
    THEN TryPredict(m, DataFrame(am, ai, ir))
    ELSE Display("warning", <<WarningText>>, NoFrame, 0)

\* lines 96-117: `if model is not None: if st.button(...): ... else: st.warning(...)`
PredictionLogic(m, pressed, am, ai, ir) ==
    IF m # None
    THEN IF pressed
         THEN TryPredict(m, DataFrame(am, ai, ir))
         ELSE Display("nothing", <<>>, NoFrame, 0)
    ELSE Display("warning", <<WarningText>>, NoFrame, 0)

(***************************************************************************)
(* One run of the script.                                                  *)
(***************************************************************************)
\* the sliders were drawn by the last render (it got past line 28)
SlidersRendered == trigger # "none" /\ shown # "exception"

\* the button was drawn by the last render (line 98 was reached)
ButtonRendered == SlidersRendered /\ model # None

\* main.py from top to bottom.  trig names the event, pressed is what
\* st.button returns in this run, am/ai/ir are the positions the three
\* sliders were left at.  The file is read only on a cache miss, and what
\* the read does is the environment's choice.  When line 28 raises, the
\* run ends there: nothing below it is drawn, and the session either keeps
\* the widget values or forgets them (Streamlit versions differ).
Script(trig, pressed, am, ai, ir) ==
    /\ cache.present \/ fileReads < MaxReads
    /\ \E outcome \in (IF cache.present THEN {NoRead} ELSE LoadOutcomes) :
         LET c == cache_resource(cache, outcome, fileReads + 1) IN
         /\ cache' = c.cache
         /\ fileReads' = fileReads + c.reads
         /\ notFound' = (notFound \/ (c.reads = 1 /\ outcome.exc = "FileNotFoundError"))
         /\ joblibExc' = IF c.reads = 1 THEN outcome.exc ELSE "none"
         /\ trigger' = trig
         /\ model' = c.value
         /\ prevShown' = shown
         /\ IF c.raised
            THEN /\ shown' = "exception"
                 /\ rendered' = <<c.exc>>
                 /\ df_input' = NoFrame
                 /\ predictCalls' = 0
                 /\ \E keep \in BOOLEAN :
                      /\ AmineFlow' = IF keep THEN slider(AmineMin, AmineMax, am) ELSE AmineDefault
                      /\ AirFlow' = IF keep THEN slider(AirMin, AirMax, ai) ELSE AirDefault
                      /\ Iron' = IF keep THEN slider(IronMin, IronMax, ir) ELSE IronDefault
            ELSE LET amine == slider(AmineMin, AmineMax, am)
                     air   == slider(AirMin, AirMax, ai)
                     iron  == slider(IronMin, IronMax, ir)
                     d     == PredictionLogic(c.value, pressed, amine, air, iron)
                 IN  /\ AmineFlow' = amine
                     /\ AirFlow' = air
                     /\ Iron' = iron
                     /\ shown' = d.shown
                     /\ rendered' = d.rendered
                     /\ df_input' = d.df
                     /\ predictCalls' = d.calls

\* the state of the process before any browser has asked for the page
Init ==
    /\ cache = EmptyCache
    /\ fileReads = 0
    /\ notFound = FALSE
    /\ joblibExc = "none"
    /\ AmineFlow = AmineDefault
    /\ AirFlow = AirDefault
    /\ Iron = IronDefault
    /\ trigger = "none"
    /\ model = Unbound
    /\ shown = "nothing"
    /\ prevShown = "nothing"
    /\ rendered = <<>>
    /\ df_input = NoFrame
    /\ predictCalls = 0

\* a browser opens (or reloads) the page: a new session, widgets at `value=`
PageLoad == Script("page", FALSE, AmineDefault, AirDefault, IronDefault)

\* a rerun that shows again what the last render showed
RerunKeepingOutput ==
    /\ trigger # "none"
    /\ cache.present
    /\ trigger' = "rerun"
    /\ prevShown' = shown
    /\ UNCHANGED <<cache, fileReads, notFound, joblibExc, AmineFlow, AirFlow, Iron,
                   model, shown, rendered, df_input, predictCalls>>

\* the user asks for a rerun (menu or "R") without touching a widget
Rerun ==
    /\ trigger # "none"
    /\ Script("rerun", FALSE, AmineFlow, AirFlow, Iron)

\* the user drags the first slider to position raw
SlideAmine(raw) ==
    /\ SlidersRendered
    /\ slider(AmineMin, AmineMax, raw) # AmineFlow
    /\ Script("AmineFlow", FALSE, raw, AirFlow, Iron)

\* the user drags the second slider to position raw
SlideAir(raw) ==
    /\ SlidersRendered
    /\ slider(AirMin, AirMax, raw) # AirFlow
    /\ Script("AirFlow", FALSE, AmineFlow, raw, Iron)

\* the user drags the third slider to position raw
SlideIron(raw) ==
    /\ SlidersRendered
    /\ slider(IronMin, IronMax, raw) # Iron
    /\ Script("Iron", FALSE, AmineFlow, AirFlow, raw)

\* the user presses the button: st.button returns True in the run it causes
PressButton ==
    /\ ButtonRendered
    /\ Script("button", TRUE, AmineFlow, AirFlow, Iron)

MoveAmine == \E raw \in Positions(AmineMin, AmineMax, AmineDefault) : SlideAmine(raw)
MoveAir == \E raw \in Positions(AirMin, AirMax, AirDefault) : SlideAir(raw)
MoveIron == \E raw \in Positions(IronMin, IronMax, IronDefault) : SlideIron(raw)

Next == PageLoad \/ Rerun \/ MoveAmine \/ MoveAir \/ MoveIron \/ PressButton

Spec == Init /\ [][Next]_vars

(***************************************************************************)
(* The claims.                                                             *)
(***************************************************************************)

\* C1: over any sequence of renders the process reads the model file at most
\* once, and a render that has a model has the cached instance.
C1_FileReadAtMostOnce ==
    /\ fileReads <= 1
    /\ (cache.present /\ trigger # "none" => model = cache.value)

\* C2: once joblib.load has raised FileNotFoundError, that render and every
\* later one shows the warning and calls model.predict zero times, and the
\* file is never read again.
C2_NotFoundIsPersistentWarning ==
    /\ [](notFound => /\ model = None
                      /\ shown = "warning"
                      /\ rendered = <<WarningText>>
                      /\ predictCalls = 0
                      /\ ~ButtonRendered)
    /\ [][notFound => fileReads' = fileReads /\ joblibExc' = "none"]_vars

\* a render caused by a slider change, after the load had failed with FileNotFoundError
C2_Witness == notFound /\ trigger = "AirFlow" /\ AirFlow = 372 /\ shown = "warning"

\* C3: a render that was not caused by the button (page load, rerun, slider
\* change) calls model.predict zero times and shows neither a result nor a
\* prediction error.
C3_PredictOnlyOnButtonPress ==
    trigger # "button" =>
        /\ predictCalls = 0
        /\ shown \notin {"result", "error"}
        /\ df_input = NoFrame

\* a slider-change render with a loaded model, right after a render that showed a result
C3_Witness == trigger = "Iron" /\ IsModel(model) /\ prevShown = "result" /\ shown = "nothing"

\* C4: with a loaded model a button press ends either with the formatted
\* result (the prediction step did not raise) or with the error message that
\* carries the exception's text (it raised); nothing escapes, and the button
\* can be pressed again.
C4_PressEndsInResultOrCaughtError ==
    (trigger = "button" /\ IsModel(model)) =>
        LET b == PredictionStep(model, df_input) IN
        /\ shown \in {"result", "error"}
        /\ (shown = "result") <=> ~b.raised
        /\ shown = "result" => rendered = b.parts
        /\ shown = "error" => Len(rendered) = 2 /\ rendered[2] = b.msg /\ b.msg # ""
        /\ ENABLED PressButton

\* a press whose failure is the IndexError of prediction_value[0], caught and shown
C4_Witness == trigger = "button" /\ model.kind = "empty" /\ shown = "error" /\ AirFlow = 175

\* C5: whatever exception joblib.load raises, load_model returns None: the
\* render shows the warning and makes no prediction.
C5_EveryLoadFailureWarns ==
    joblibExc # "none" => model = None /\ shown = "warning" /\ predictCalls = 0

\* C6: the three values are always integers of [241, 740], [175, 372] and
\* [62, 69]; a session starts with 300, 180 and 63; a render caused by one
\* slider changes that value and leaves the other two as they were.
C6_InputsStayInRange ==
    /\ [](/\ AmineFlow \in 241..740
          /\ AirFlow \in 175..372
          /\ Iron \in 62..69
          /\ (trigger \in {"none", "page"} => AmineFlow = 300 /\ AirFlow = 180 /\ Iron = 63))
    /\ [][/\ trigger' = "AmineFlow" => AmineFlow' # AmineFlow /\ AirFlow' = AirFlow /\ Iron' = Iron
          /\ trigger' = "AirFlow" => AirFlow' # AirFlow /\ AmineFlow' = AmineFlow /\ Iron' = Iron
          /\ trigger' = "Iron" => Iron' # Iron /\ AmineFlow' = AmineFlow /\ AirFlow' = AirFlow
          /\ trigger' \in {"button", "rerun"} /\ shown' # "exception" =>
                AmineFlow' = AmineFlow /\ AirFlow' = AirFlow /\ Iron' = Iron]_vars

\* the first slider dragged past its maximum while the other two are off their defaults
C6_Witness == trigger = "AmineFlow" /\ AmineFlow = 740 /\ AirFlow = 372 /\ Iron = 62

\* C7: the frame given to model.predict has one row and the columns
\* FlujoAmina, FlujoAireColumna1, Hierro Concentrado in this order, holding
\* the widget values as they were when the button was pressed; a render
\* without a press has no frame.
C7_RecordHoldsCurrentInputs ==
    /\ [](/\ trigger = "button" => predictCalls = 1
          /\ predictCalls > 0 =>
                /\ df_input.columns = <<"FlujoAmina", "FlujoAireColumna1", "Hierro Concentrado">>
                /\ df_input.rows = << <<AmineFlow, AirFlow, Iron>> >>
          /\ predictCalls = 0 => df_input = NoFrame)
    /\ [][trigger' = "button" => df_input'.rows = << <<AmineFlow, AirFlow, Iron>> >>]_vars

\* a press after all three sliders were moved
C7_Witness ==
    /\ trigger = "button" /\ predictCalls = 1
    /\ AmineFlow = 241 /\ AirFlow = 371 /\ Iron = 69

\* C8: a shown result is the first element of the output with two decimals,
\* followed by '%': 12.3456 gives "12.35%" (and 67.875 "67.88", 68.125
\* "68.12", -0.0049 "-0.00").
C8_ResultHasTwoDecimals ==
    shown = "result" =>
        /\ Len(rendered) = 3
        /\ rendered[3] = "%"
        /\ model.kind = "const" => rendered[2] \o rendered[3] = "12.35%"
        /\ model.kind = "picky" => rendered[2] = "-0.00"
        /\ (model.kind = "eighths" /\ AmineFlow + AirFlow + Iron = 543) => rendered[2] = "67.88"
        /\ (model.kind = "eighths" /\ AmineFlow + AirFlow + Iron = 545) => rendered[2] = "68.12"
        /\ (model.kind = "eighths" /\ AmineFlow + AirFlow + Iron = 544) => rendered[2] = "68.00"

\* the scenario of the claim: default inputs, the stub that returns 12.3456
C8_Witness ==
    /\ shown = "result" /\ model.kind = "const"
    /\ AmineFlow = 300 /\ AirFlow = 180 /\ Iron = 63

\* C9: once a render has a model every later render has the same one; with a
\* model, each press calls model.predict once on the current values and shows
\* a result or an error as the prediction step on those values decides,
\* whatever the render before showed; any other render shows neither; and
\* after a result or an error the button can be pressed again.
C9_PredictionCycleRepeats ==
    /\ [][IsModel(model) =>
            /\ model' = model
            /\ trigger' = "button" =>
                 /\ predictCalls' = 1
                 /\ df_input' = DataFrame(AmineFlow', AirFlow', Iron')
                 /\ shown' = IF PredictionStep(model', df_input').raised THEN "error" ELSE "result"
            /\ trigger' # "button" => shown' = "nothing"]_vars
    /\ [](shown \in {"result", "error"} => ENABLED PressButton)

\* a press right after a render that showed a prediction error: predict is called again
C9_Witness ==
    /\ trigger = "button" /\ prevShown = "error" /\ predictCalls = 1
    /\ model.kind = "picky" /\ shown = "error"

\* C10: what a render shows is fixed by the model the cache gave it, the
\* three current values and whether the button caused it: without a model
\* the warning (or the load's exception), with one and no press nothing at
\* all, with one and a press the outcome of exactly one model.predict call.
C10_DisplayIsFunctionOfCurrentRender ==
    trigger # "none" =>
        /\ model = Unbound => shown = "exception" /\ predictCalls = 0 /\ rendered = <<joblibExc>>
        /\ model = None => shown = "warning" /\ predictCalls = 0
        /\ (IsModel(model) /\ trigger # "button") =>
                shown = "nothing" /\ rendered = <<>> /\ predictCalls = 0
        /\ (IsModel(model) /\ trigger = "button") =>
                LET d == TryPredict(model, DataFrame(AmineFlow, AirFlow, Iron)) IN
                predictCalls = 1 /\ shown = d.shown /\ rendered = d.rendered

\* a rerun without a press, right after a render that showed a result
C10_Witness == trigger = "rerun" /\ prevShown = "result" /\ shown = "nothing" /\ IsModel(model)

====
